---- MODULE Spec2Model ----
(***************************************************************************)
(* GAL-KARS: the embedding sweep (2_learn_embs/learn_kge.py) and the       *)
(* recommender driver (3_recsys/src/train_dbbook.py), two scripts that     *)
(* share no runtime state.                                                 *)
(***************************************************************************)
EXTENDS Integers, Sequences, FiniteSets, TLC

VARIABLES
    \* ---- embedding sweep (learn_kge.py)
    sweep_pc,       \* "loop" | "crashed" (uncaught exception) | "closed" (log closed)
    sweep_k,        \* position of the next configuration in the nested loops, 1-based
    log_file,       \* the records written to log.txt, in order
    results,        \* files written under results/: <<configuration, file name>>
    reached_train,  \* configurations whose pipeline(...) call was reached, in order
    failed,         \* configurations in whose processing an exception was raised
    \* ---- recommender driver (train_dbbook.py)
    rpc,            \* "start" | "loop" | "training" | "loading" | "trained" | "tested" | "finished" | "crashed"
    i,              \* index into feature_list of the current configuration, 1-based
    force,          \* the force flag tested by the train-or-load branch
    source_pkl,     \* keys of the source embedding pickle, in stored order
    train_tsv,      \* rows of data/raw/dbbook/train.tsv (external ids)
    test_tsv,       \* rows of data/raw/dbbook/test.tsv (external ids)
    tensors_dict,   \* names of the embedding tables loaded at startup
    source_features,\* keys of the source table after dict(sorted(...))
    source_mapping, \* external id -> dense index
    train_ratings,  \* train table after .map(source_mapping)
    test_ratings,   \* test table after .map(source_mapping)
    existed,        \* per configuration: what os.path.exists answered when it started
    written,        \* files written by this run: <<configuration, kind>>
    trace,          \* per configuration: the phases it went through
    train_calls,    \* configurations for which train() was invoked
    fed,            \* every index handed to the scoring network
    predictions,    \* the DataFrame test() returns; idx is the row's place in the test table
    top5,           \* the frame written to the top-5 file by the last emission
    top10           \* the frame written to the top-10 file by the last emission

sweep_vars == <<sweep_pc, sweep_k, log_file, results, reached_train, failed>>
rec_vars == <<rpc, i, force, source_pkl, train_tsv, test_tsv, tensors_dict,
              source_features, source_mapping, train_ratings, test_ratings, existed,
              written, trace, train_calls, fed, predictions, top5, top10>>
vars == <<sweep_vars, rec_vars>>

(***************************************************************************)
(* Python values.  An int and a str never compare equal and never hash     *)
(* alike, so a value carries its type: PyInt(8) is 8, PyStr(8) is '8'.     *)
(***************************************************************************)
PyInt(n) == <<"int", n>>
PyStr(n) == <<"str", n>>

\* d[k] for a dict d: the value, or KeyError when k is not a key of d.
DictGet(d, k) ==
    IF k \in DOMAIN d THEN <<"ok", d[k]>> ELSE <<"KeyError", k>>

(***************************************************************************)
(* learn_kge.py: the configured lists                                      *)
(***************************************************************************)
datasets == <<"ml1m", "dbbook">>
emb_models == <<"CompGCN">>
settings == <<PyInt(8), PyInt(7), PyInt(6), PyInt(5), PyInt(4), PyInt(3), PyInt(2), PyInt(1)>>
emb_dims == <<64>>
n_layers == <<1, 2, 3>>

KgFolders == <<"1_cf", "2_cf_dbpedia", "3_cf_llm_i", "4_cf_llm_u", "5_cf_llm_iu",
               "6_cf_dbpedia_llm_i", "7_cf_dbpedia_llm_u", "8_cf_dbpedia_llm_ui">>

\* dict of setting id -> folder; its keys are the strings '1' .. '8'.
setting_kgs == [key \in {PyStr(n) : n \in 1..Len(KgFolders)} |-> KgFolders[key[2]]]

\* Number of configurations of the nested loops.
SweepSize == Len(emb_models) * Len(emb_dims) * Len(datasets) * Len(settings) * Len(n_layers)

\* The k-th configuration in loop order (n_layer innermost, emb_model outermost).
SweepConfig(k) ==
    LET z == k - 1
        l == z % Len(n_layers)
        s == (z \div Len(n_layers)) % Len(settings)
        d == (z \div (Len(n_layers) * Len(settings))) % Len(datasets)
        e == (z \div (Len(n_layers) * Len(settings) * Len(datasets))) % Len(emb_dims)
        m == z \div (Len(n_layers) * Len(settings) * Len(datasets) * Len(emb_dims))
    IN  [emb_model |-> emb_models[m + 1], emb_dim |-> emb_dims[e + 1],
         dataset |-> datasets[d + 1], setting |-> settings[s + 1],
         n_layer |-> n_layers[l + 1]]

\* f'{dataset}/setting_{setting_kgs[setting]}/<file>': the path, or the KeyError.
TriplePath(cfg, file) ==
    LET look == DictGet(setting_kgs, cfg.setting)
    IN  IF look[1] = "ok"
        THEN <<"ok", <<cfg.dataset, "setting_", look[2], file>>>>
        ELSE look

\* The stages of the try block, in order, each of which may raise.
TryStages == <<"from_path_train", "from_path_test", "pipeline", "mkdir",
               "pipeline_result.dat", "entities_to_id.tsv", "relations_to_id.tsv",
               "save_to_directory", "embeddings.tsv">>

\* Files of the output folder written by the stages before stage number n.
WrittenBefore(k, n) ==
    {<<k, TryStages[j]>> : j \in {j \in 1..(n - 1) : j >= 4}}

StartRecord(k) == <<"Starting", k>>
CompletedRecord == <<"Completed">>
ErrorRecords(k, stage) == <<<<"An error occoured in", k>>, <<"str(e)", stage>>>>

\* One iteration of the nested loops: everything from the start record to the
\* completion or error record.  raise_at = Len(TryStages) + 1 means nothing raised.
SweepIteration ==
    /\ sweep_pc = "loop"
    /\ sweep_k <= SweepSize
    /\ LET cfg == SweepConfig(sweep_k)
           started == Append(log_file, StartRecord(sweep_k))
           train_path == TriplePath(cfg, "pykeen_train.tsv")
           test_path == TriplePath(cfg, "pykeen_test.tsv")
       IN  IF train_path[1] = "KeyError" \/ test_path[1] = "KeyError"
           THEN \* raised outside the try block: the script stops here
                /\ log_file' = started
                /\ sweep_pc' = "crashed"
                /\ failed' = failed \cup {sweep_k}
                /\ UNCHANGED <<sweep_k, results, reached_train>>
           ELSE \E raise_at \in 1..(Len(TryStages) + 1) :
                /\ results' = results \cup WrittenBefore(sweep_k, raise_at)
                /\ reached_train' = IF raise_at >= 3 THEN Append(reached_train, sweep_k)
                                    ELSE reached_train
                /\ IF raise_at > Len(TryStages)
                   THEN /\ log_file' = Append(started, CompletedRecord)
                        /\ failed' = failed
                   ELSE /\ log_file' = started \o ErrorRecords(sweep_k, TryStages[raise_at])
                        /\ failed' = failed \cup {sweep_k}
                /\ sweep_k' = sweep_k + 1
                /\ sweep_pc' = IF sweep_k = SweepSize THEN "closed" ELSE "loop"
    /\ UNCHANGED rec_vars

(***************************************************************************)
(* train_dbbook.py: tables, the canonical entity index, sorting, top-K     *)
(***************************************************************************)
\* External entity ids that occur in the embedding pickle and the rating files.
ExternalIds == {1, 2, 3}

\* Score levels the network can output; two levels give ties and strict order.
Scores == {1, 2}

\* Rows of a rating table drawn for the driver, and configurations modelled.
MaxRows == 1
NumConfigs == 2

\* grouped_predictions.head(5) and .head(10)
Top5 == 5
Top10 == 10

\* feature_list[j]: one source name per entry, settings 1..8 by layers 1..3.
feature_list(j) == [s |-> ((j - 1) \div 3) + 1, l |-> ((j - 1) % 3) + 1]

\* The pickle line 193 opens: dbbook_s=1_CompGCN_k=64_l=1.
SourceName == [s |-> 1, l |-> 1]

RECURSIVE sorted(_)
\* sorted(keys) for int keys, ascending.
sorted(s) ==
    IF s = <<>> THEN <<>>
    ELSE LET x == s[Len(s)]
             rest == sorted(SubSeq(s, 1, Len(s) - 1))
             n == Cardinality({j \in 1..Len(rest) : rest[j] <= x})
         IN  SubSeq(rest, 1, n) \o <<x>> \o SubSeq(rest, n + 1, Len(rest))

\* Mutant of arange: indices that start at 1.
arangeFromOne(n) == [j \in 1..n |-> j]

\* np.arange(0, n)
arange(n) == [j \in 1..n |-> j - 1]

\* dict(zip(keys, values)): a later pair overwrites an earlier one with the same key.
DictZip(keys, values) ==
    LET n == IF Len(keys) < Len(values) THEN Len(keys) ELSE Len(values)
        last(k) == CHOOSE j \in 1..n : keys[j] = k /\ \A h \in (j + 1)..n : keys[h] # k
    IN  [k \in {keys[j] : j \in 1..n} |-> values[last(k)]]

\* Series.map(dict) on one cell: <<index>>, or <<>> (NaN) for a missing key.
MapCell(v, mapping) == IF v \in DOMAIN mapping THEN <<mapping[v]>> ELSE <<>>

\* Both id columns of a rating table through .map(source_mapping).
MapTable(table, mapping) ==
    [j \in 1..Len(table) |-> [user |-> MapCell(table[j].user, mapping),
                              item |-> MapCell(table[j].item, mapping)]]

\* RecSysDataset(ratings) under a DataLoader: the rows of the table, as they are.
RecSysDataset(ratings) == ratings

\* batch[0].int(): casting NaN to int32 is undefined; nan is what the cast yields.
ToInt(cell, nan) == IF cell = <<>> THEN nan ELSE cell[1]

\* The outcomes of the NaN cast: INT32_MIN (x86) or 0 (aarch64).
INT32_MIN == -2147483647 - 1
NanCasts == {INT32_MIN, 0}

\* list[x] with Python's negative indexing: the element, or IndexError.
PyListGet(list, x) ==
    IF x >= 0 /\ x < Len(list) THEN <<"ok", list[x + 1]>>
    ELSE IF x < 0 /\ x >= -Len(list) THEN <<"ok", list[Len(list) + x + 1]>>
    ELSE <<"IndexError">>

\* Mutant of RowBefore: the score ascending as well.
RowBeforeAscending(a, b) ==
    \/ a.user < b.user
    \/ a.user = b.user /\ a.score < b.score

\* Order of sort_values(by=['user','score'], ascending=[True, False]).
RowBefore(a, b) ==
    \/ a.user < b.user
    \/ a.user = b.user /\ a.score > b.score

RECURSIVE SortValues(_)
\* The stable lexicographic sort pandas applies for several sort keys.
SortValues(df) ==
    IF df = <<>> THEN <<>>
    ELSE LET x == df[Len(df)]
             rest == SortValues(SubSeq(df, 1, Len(df) - 1))
             n == Cardinality({j \in 1..Len(rest) : ~RowBefore(x, rest[j])})
         IN  SubSeq(rest, 1, n) \o <<x>> \o SubSeq(rest, n + 1, Len(rest))

\* groupby('user').head(n): the rows whose cumulative count in their group is < n.
GroupHead(df, n) ==
    LET keep(j) == Cardinality({h \in 1..(j - 1) : df[h].user = df[j].user}) < n
        kept == SelectSeq([j \in 1..Len(df) |-> j], keep)
    IN  [p \in 1..Len(kept) |-> df[kept[p]]]

\* Lines 309-311: both id columns through list_mapping[x]; <<>> if an index is out of range.
Remap(df, list_mapping) ==
    IF \E j \in 1..Len(df) :
          \/ PyListGet(list_mapping, df[j].user)[1] # "ok"
          \/ PyListGet(list_mapping, df[j].item)[1] # "ok"
    THEN <<"IndexError">>
    ELSE LET rows == [j \in 1..Len(df) |->
                        [df[j] EXCEPT !.user = PyListGet(list_mapping, df[j].user)[2],
                                      !.item = PyListGet(list_mapping, df[j].item)[2]]]
         IN  <<"ok", SubSeq(rows, 1, Len(df))>>

\* Lines 135-144: the frame of scored rows; idx is the DataFrame's row label.
ScoredFrame(ratings, sc, nan) ==
    [j \in 1..Len(ratings) |-> [idx |-> j - 1,
                                user |-> ToInt(ratings[j].user, nan),
                                item |-> ToInt(ratings[j].item, nan),
                                score |-> sc[j]]]

\* The indices a table hands to the network (model_input of train and test).
FedBy(ratings, nan) ==
    {ToInt(ratings[j].user, nan) : j \in 1..Len(ratings)}
        \cup {ToInt(ratings[j].item, nan) : j \in 1..Len(ratings)}

\* Where the script stands after configuration cur ran to the end of the loop body
\* (or left it by continue).
AfterBody(cur) ==
    [rpc |-> IF cur = NumConfigs THEN "finished" ELSE "loop", i |-> cur + 1]

\* Mutant of AfterException: the exception is caught and the loop goes on.
AfterExceptionCaught(cur) ==
    [rpc |-> IF cur = NumConfigs THEN "finished" ELSE "loop", i |-> cur + 1]

\* Where the script stands after an exception of the configuration loop: nothing
\* catches it, the process ends.
AfterException(cur) == [rpc |-> "crashed", i |-> cur]

\* Mutant of Branch: the force flag is not consulted.
BranchIgnoringForce(model_exists, preds_exist, force_flag) ==
    IF model_exists
    THEN IF preds_exist = "yes" THEN "skip" ELSE "load"
    ELSE "train"

\* Mutant of Branch: the existing model is never reused.
BranchAlwaysTrain(model_exists, preds_exist, force_flag) == "train"

\* Lines 280-294: which way the train-or-load branch goes.
Branch(model_exists, preds_exist, force_flag) ==
    IF model_exists /\ force_flag = FALSE
    THEN IF preds_exist = "yes" THEN "skip" ELSE "load"
    ELSE "train"

Phase(t, p) == [trace EXCEPT ![t] = Append(@, p)]

(***************************************************************************)
(* train_dbbook.py: the script, step by step                               *)
(***************************************************************************)
\* Lines 153-232: read the rating tables, load the embedding tables found in the
\* folder, build the canonical index from the source pickle, map both tables.
Startup ==
    /\ rpc = "start"
    /\ \E listing \in SUBSET {feature_list(j) : j \in 1..NumConfigs} :
        /\ tensors_dict' = listing
        /\ IF SourceName \notin listing
           THEN \* open(...) of line 193 raises FileNotFoundError
                /\ rpc' = "crashed"
                /\ UNCHANGED <<source_features, source_mapping, train_ratings, test_ratings>>
           ELSE LET feats == sorted(source_pkl)
                    mapping == DictZip(feats, arange(Len(feats)))
                IN  /\ source_features' = feats
                    /\ source_mapping' = mapping
                    /\ train_ratings' = MapTable(train_tsv, mapping)
                    /\ test_ratings' = MapTable(test_tsv, mapping)
                    /\ rpc' = "loop"
    /\ UNCHANGED <<i, force, source_pkl, train_tsv, test_tsv, existed, written,
                   trace, train_calls, fed, predictions, top5, top10>>
    /\ UNCHANGED sweep_vars

\* Lines 235-294: the head of one iteration, up to the train-or-load branch.
\* The frames of the previous iteration are dead from here on (nothing reads
\* them before lines 306-318 rebind them), so they are dropped.
EnterConfig ==
    /\ rpc = "loop"
    /\ i <= NumConfigs
    /\ IF feature_list(i) \notin tensors_dict
       THEN \* tensors_dict[model] of line 242 raises KeyError
            /\ rpc' = AfterException(i).rpc
            /\ i' = AfterException(i).i
            /\ trace' = Phase(i, "FAILED")
            /\ UNCHANGED existed
       ELSE \E model_exists \in BOOLEAN :
            \E preds_exist \in IF model_exists /\ force = FALSE THEN {"yes", "no"}
                               ELSE {"unchecked"} :
                /\ existed' = [existed EXCEPT ![i] = [model |-> model_exists,
                                                      top5 |-> preds_exist]]
                /\ LET way == Branch(model_exists, preds_exist, force)
                   IN  IF way = "skip"
                       THEN \* 'The predictions already exists, skipping.'
                            /\ trace' = Phase(i, "SKIPPED")
                            /\ rpc' = AfterBody(i).rpc
                            /\ i' = AfterBody(i).i
                       ELSE IF way = "load"
                       THEN /\ trace' = Phase(i, "LOAD_EXISTING")
                            /\ rpc' = "loading"
                            /\ i' = i
                       ELSE /\ trace' = Phase(i, "TRAINING")
                            /\ rpc' = "training"
                            /\ i' = i
    /\ predictions' = <<>>
    /\ top5' = <<>>
    /\ top10' = <<>>
    /\ UNCHANGED <<force, source_pkl, train_tsv, test_tsv, tensors_dict,
                   source_features, source_mapping, train_ratings, test_ratings,
                   written, train_calls, fed>>
    /\ UNCHANGED sweep_vars

\* Lines 297-302: train(...) and torch.save of the model.  An exception raised
\* before the first batch is not told apart from one raised after it.
Train ==
    /\ rpc = "training"
    /\ train_calls' = train_calls \cup {i}
    /\ \E nan \in NanCasts : fed' = fed \cup FedBy(RecSysDataset(train_ratings), nan)
    /\ \E returns \in BOOLEAN :
        IF returns
        THEN /\ written' = written \cup {<<i, "model">>}
             /\ trace' = Phase(i, "TRAINED")
             /\ rpc' = "trained"
             /\ i' = i
        ELSE /\ written' = written
             /\ trace' = Phase(i, "FAILED")
             /\ rpc' = AfterException(i).rpc
             /\ i' = AfterException(i).i
    /\ UNCHANGED <<force, source_pkl, train_tsv, test_tsv, tensors_dict,
                   source_features, source_mapping, train_ratings, test_ratings,
                   existed, predictions, top5, top10>>
    /\ UNCHANGED sweep_vars

\* Line 289: torch.load of the existing model.
Load ==
    /\ rpc = "loading"
    /\ \E returns \in BOOLEAN :
        IF returns
        THEN /\ trace' = Phase(i, "TRAINED")
             /\ rpc' = "trained"
             /\ i' = i
        ELSE /\ trace' = Phase(i, "FAILED")
             /\ rpc' = AfterException(i).rpc
             /\ i' = AfterException(i).i
    /\ UNCHANGED <<force, source_pkl, train_tsv, test_tsv, tensors_dict,
                   source_features, source_mapping, train_ratings, test_ratings,
                   existed, written, train_calls, fed, predictions, top5, top10>>
    /\ UNCHANGED sweep_vars

\* Line 306, test(...): score every test row (one batch: the tables modelled are
\* shorter than test_batch_size), build the frame and sort it.  torch.hstack of
\* an empty list raises, so an empty test table never returns.
Test ==
    /\ rpc = "trained"
    /\ \E nan \in NanCasts :
        /\ fed' = fed \cup FedBy(RecSysDataset(test_ratings), nan)
        /\ \E returns \in (IF test_ratings = <<>> THEN {FALSE} ELSE BOOLEAN) :
            IF returns
            THEN \E sc \in [1..Len(test_ratings) -> Scores] :
                 /\ predictions' = SortValues(ScoredFrame(RecSysDataset(test_ratings), sc, nan))
                 /\ trace' = Phase(i, "EVALUATING")
                 /\ rpc' = "tested"
                 /\ i' = i
            ELSE /\ trace' = [trace EXCEPT ![i] = @ \o <<"EVALUATING", "FAILED">>]
                 /\ rpc' = AfterException(i).rpc
                 /\ i' = AfterException(i).i
                 /\ UNCHANGED predictions
    /\ UNCHANGED <<force, source_pkl, train_tsv, test_tsv, tensors_dict,
                   source_features, source_mapping, train_ratings, test_ratings,
                   existed, written, train_calls, top5, top10>>
    /\ UNCHANGED sweep_vars

\* Lines 309-324: remap to external ids, group by user, write top-5 and top-10.
Emit ==
    /\ rpc = "tested"
    /\ LET remapped == Remap(predictions, source_features)
       IN  IF remapped[1] = "IndexError"
           THEN /\ trace' = Phase(i, "FAILED")
                /\ rpc' = AfterException(i).rpc
                /\ i' = AfterException(i).i
                /\ UNCHANGED <<predictions, top5, top10, written>>
           ELSE /\ predictions' = remapped[2]
                /\ top5' = GroupHead(remapped[2], Top5)
                /\ top10' = GroupHead(remapped[2], Top10)
                /\ written' = written \cup {<<i, "top5">>, <<i, "top10">>}
                /\ trace' = Phase(i, "DONE")
                /\ rpc' = AfterBody(i).rpc
                /\ i' = AfterBody(i).i
    /\ UNCHANGED <<force, source_pkl, train_tsv, test_tsv, tensors_dict,
                   source_features, source_mapping, train_ratings, test_ratings,
                   existed, train_calls, fed>>
    /\ UNCHANGED sweep_vars

(***************************************************************************)
(* Specifications                                                          *)
(***************************************************************************)
\* Longest test table drawn for the top-K specification.
MaxScoredRows == 11

\* Tables of at most n rows with user and item ids from S.
Tables(S, n) == UNION {[1..m -> [user : S, item : S]] : m \in 0..n}

\* Sequences without repetition over a set: the key orders a pickle can hold.
KeyOrders(S) ==
    {s \in UNION {[1..m -> S] : m \in 1..Cardinality(S)} :
        \A a, b \in 1..Len(s) : a # b => s[a] # s[b]}

\* Test tables of up to MaxScoredRows rows: rows of user 1, one of which may
\* instead belong to user 2.
LongTables ==
    {[j \in 1..Len(u) |-> [user |-> u[j], item |-> 3]] :
        u \in {v \in UNION {[1..m -> {1, 2}] : m \in 1..MaxScoredRows} :
                 Cardinality({j \in 1..Len(v) : v[j] = 2}) <= 1}}

\* learn_kge.py at its first line.
SweepInit ==
    /\ sweep_pc = "loop"
    /\ sweep_k = 1
    /\ log_file = <<>>
    /\ results = {}
    /\ reached_train = <<>>
    /\ failed = {}

\* train_dbbook.py at its first line, nothing loaded yet.
RecStart ==
    /\ rpc = "start"
    /\ i = 1
    /\ tensors_dict = {}
    /\ source_features = <<>>
    /\ source_mapping = <<>>
    /\ train_ratings = <<>>
    /\ test_ratings = <<>>
    /\ existed = [j \in 1..NumConfigs |-> [model |-> FALSE, top5 |-> "unchecked"]]
    /\ written = {}
    /\ trace = [j \in 1..NumConfigs |-> <<>>]
    /\ train_calls = {}
    /\ fed = {}
    /\ predictions = <<>>
    /\ top5 = <<>>
    /\ top10 = <<>>

\* The driver over every flag value, key order and pair of short tables on two ids.
Init ==
    /\ SweepInit
    /\ force \in BOOLEAN
    /\ source_pkl \in KeyOrders({1, 2})
    /\ train_tsv \in Tables({1, 2}, MaxRows)
    /\ test_tsv \in Tables({1, 2}, MaxRows)
    /\ RecStart

\* The driver as the script is configured (force = True), over every key order
\* on ExternalIds, with one train row and every short test table.
InitIndex ==
    /\ SweepInit
    /\ force = TRUE
    /\ source_pkl \in KeyOrders(ExternalIds)
    /\ train_tsv = <<[user |-> 1, item |-> 2]>>
    /\ test_tsv \in Tables(ExternalIds, MaxRows)
    /\ RecStart

\* The driver holding the trained model of its first configuration, about to
\* evaluate it on a long test table.
InitTopK ==
    /\ SweepInit
    /\ force = TRUE
    /\ source_pkl = <<3, 1, 2>>
    /\ train_tsv = <<>>
    /\ test_tsv \in LongTables
    /\ rpc = "trained"
    /\ i = 1
    /\ tensors_dict = {feature_list(j) : j \in 1..NumConfigs}
    /\ source_features = sorted(source_pkl)
    /\ source_mapping = DictZip(source_features, arange(Len(source_features)))
    /\ train_ratings = MapTable(train_tsv, source_mapping)
    /\ test_ratings = MapTable(test_tsv, source_mapping)
    /\ existed = [j \in 1..NumConfigs |-> [model |-> FALSE, top5 |-> "unchecked"]]
    /\ written = {<<1, "model">>}
    /\ trace = [j \in 1..NumConfigs |-> IF j = 1 THEN <<"TRAINING", "TRAINED">> ELSE <<>>]
    /\ train_calls = {1}
    /\ fed = {}
    /\ predictions = <<>>
    /\ top5 = <<>>
    /\ top10 = <<>>

\* The driver.
Next ==
    \/ Startup
    \/ EnterConfig
    \/ Train
    \/ Load
    \/ Test
    \/ Emit

\* The driver as configured (force = True): the load branch is never taken.
NextForced ==
    \/ Startup
    \/ EnterConfig
    \/ Train
    \/ Test
    \/ Emit

\* Evaluation and emission of one configuration.
NextTopK ==
    \/ Test
    \/ Emit

\* Both scripts, run side by side.
NextRepo ==
    \/ SweepIteration
    \/ Next

Spec == Init /\ [][Next]_vars
SpecIndex == InitIndex /\ [][NextForced]_vars
SpecTopK == InitTopK /\ [][NextTopK]_vars
SpecRepo == Init /\ [][NextRepo]_vars

(***************************************************************************)
(* Properties                                                              *)
(***************************************************************************)
Range(s) == {s[j] : j \in 1..Len(s)}

\* Configuration c has been left by the loop without an exception.
Processed(c) == c < i \/ rpc = "finished"

\* The frames of the configuration just emitted are still in place.
Emitted == rpc \in {"loop", "finished"} /\ predictions # <<>>

FilesOf(c) == {f \in written : f[1] = c}

\* C1: a failure while processing a configuration of the embedding sweep never
\* aborts the sweep: it is logged with the configuration's name, and once the
\* loop is over every later configuration has been started.
C1_FailureNeverAborts ==
    \A k \in failed :
        /\ sweep_pc # "crashed"
        /\ <<"An error occoured in", k>> \in Range(log_file)
        /\ sweep_pc = "closed" =>
               \A j \in (k + 1)..SweepSize : StartRecord(j) \in Range(log_file)

\* C2: for every configuration the sweep starts, the train and test paths resolve
\* to <dataset>/setting_<folder>/pykeen_{train,test}.tsv with the folder of its
\* setting, and the configuration reaches training at most once.
C2_PathsResolve ==
    \A k \in 1..SweepSize :
        StartRecord(k) \in Range(log_file) =>
            LET cfg == SweepConfig(k)
                folder == KgFolders[cfg.setting[2]]
                tr == TriplePath(cfg, "pykeen_train.tsv")
                te == TriplePath(cfg, "pykeen_test.tsv")
            IN  /\ tr[1] = "ok"
                /\ te[1] = "ok"
                /\ tr[2] = <<cfg.dataset, "setting_", folder, "pykeen_train.tsv">>
                /\ te[2] = <<cfg.dataset, "setting_", folder, "pykeen_test.tsv">>
                /\ Cardinality({p \in 1..Len(reached_train) : reached_train[p] = k}) <= 1

\* C9: in the sweep's log every start record is followed at once by the
\* completion record or the error record of the same configuration, and start
\* records appear in sweep order.
C9_LogRecords ==
    /\ \A p \in 1..Len(log_file) :
          log_file[p][1] = "Starting" =>
              /\ p < Len(log_file)
              /\ \/ log_file[p + 1] = CompletedRecord
                 \/ log_file[p + 1] = <<"An error occoured in", log_file[p][2]>>
    /\ \A p, q \in 1..Len(log_file) :
          (p < q /\ log_file[p][1] = "Starting" /\ log_file[q][1] = "Starting")
              => log_file[p][2] < log_file[q][2]

\* C3: an exception in configuration c of the recommender driver ends the run
\* there: the script has stopped at c, and no later configuration was entered,
\* trained, evaluated or had a file written.
C3_ExceptionHalts ==
    \A c \in 1..NumConfigs :
        "FAILED" \in Range(trace[c]) =>
            /\ rpc = "crashed"
            /\ i = c
            /\ \A j \in (c + 1)..NumConfigs :
                  /\ trace[j] = <<>>
                  /\ j \notin train_calls
                  /\ FilesOf(j) = {}

\* C3, witness: training of the first configuration raised while a second one
\* was still to come.
C3_Witness ==
    /\ NumConfigs > 1
    /\ rpc = "crashed"
    /\ i = 1
    /\ trace[1] = <<"TRAINING", "FAILED">>

TrainPath == <<"TRAINING", "TRAINED", "EVALUATING", "DONE">>
LoadPath == <<"LOAD_EXISTING", "TRAINED", "EVALUATING", "DONE">>

PrefixOf(t, full) == Len(t) <= Len(full) /\ \A j \in 1..Len(t) : t[j] = full[j]

\* t is a path along full, possibly cut short by a failure.
Along(t, full) ==
    \/ PrefixOf(t, full)
    \/ /\ t # <<>>
       /\ t[Len(t)] = "FAILED"
       /\ Len(t) <= Len(full)
       /\ PrefixOf(SubSeq(t, 1, Len(t) - 1), full)

C7_IndicesInRange ==
    \A x \in fed : x >= 0 /\ x < Len(source_features)

\* C8: the canonical index maps the keys of the source table onto 0 .. N-1 in
\* ascending key order, list_mapping[x] inverts it, and an emitted row carries
\* the external ids of the test row it was scored from whenever the index holds
\* them.
C8_IndexRoundTrip ==
    source_features # <<>> =>
        LET keys == Range(source_pkl)
        IN  /\ DOMAIN source_mapping = keys
            /\ {source_mapping[k] : k \in keys} = 0..(Cardinality(keys) - 1)
            /\ \A a, b \in keys : a < b => source_mapping[a] < source_mapping[b]
            /\ \A k \in keys : PyListGet(source_features, source_mapping[k]) = <<"ok", k>>
            /\ Emitted =>
                   \A r \in Range(predictions) :
                       /\ test_tsv[r.idx + 1].user \in keys => r.user = test_tsv[r.idx + 1].user
                       /\ test_tsv[r.idx + 1].item \in keys => r.item = test_tsv[r.idx + 1].item

\* C8, witness: a pickle stored out of key order, and an emitted row whose user
\* and item are both in the index.
C8_Witness ==
    /\ Emitted
    /\ Len(source_pkl) >= 3
    /\ source_pkl[1] > source_pkl[2]
    /\ \E r \in Range(predictions) :
          /\ test_tsv[r.idx + 1].user \in Range(source_pkl)
          /\ test_tsv[r.idx + 1].item \in Range(source_pkl)
          /\ test_tsv[r.idx + 1].user # test_tsv[r.idx + 1].item

\* Row q is ranked ahead of row r of the same user: a higher score, or the same
\* score and an earlier place in the test table.
Beats(q, r) == q.score > r.score \/ (q.score = r.score /\ q.idx < r.idx)

\* The rows of df that fewer than k rows of their user are ranked ahead of.
BestRows(df, k) ==
    {r \in Range(df) :
        Cardinality({q \in Range(df) : q.user = r.user /\ Beats(q, r)}) < k}

RowsOfUser(frame, u) == {p \in 1..Len(frame) : frame[p].user = u}

\* frame holds exactly the k best rows of every user, each once, best first.
IsTopK(frame, df, k) ==
    /\ Range(frame) = BestRows(df, k)
    /\ Cardinality(Range(frame)) = Len(frame)
    /\ \A u \in {r.user : r \in Range(df)} :
          /\ Cardinality(RowsOfUser(frame, u)) <= k
          /\ \/ Cardinality(RowsOfUser(frame, u)) = k
             \/ Cardinality(RowsOfUser(frame, u)) = Cardinality(RowsOfUser(df, u))
    /\ \A p, q \in 1..Len(frame) :
          (p < q /\ frame[p].user = frame[q].user) => Beats(frame[p], frame[q])

\* C4: the frames written to the top-5 and top-10 files hold, for every user,
\* exactly the 5 (10) highest-scored rows of that user among the scored test
\* rows, all of them if there are fewer, ties between equal scores going to the
\* row that comes first in the test table.
C4_TopK ==
    Emitted =>
        /\ Len(predictions) = Len(test_tsv)
        /\ \A j \in 1..Len(test_tsv) :
              \E r \in Range(predictions) :
                  r.idx = j - 1 /\ r.user = test_tsv[j].user /\ r.item = test_tsv[j].item
        /\ IsTopK(top5, predictions, 5)
        /\ IsTopK(top10, predictions, 10)

\* C4, witness: a user with more than ten rows, cut at 5 and at 10, where one of
\* two rows with the same score made the top 5 and the other did not.
C4_Witness ==
    /\ Emitted
    /\ Len(top5) < Len(top10)
    /\ Len(top10) < Len(predictions)
    /\ \E r \in Range(top5) :
          \E q \in Range(predictions) \ Range(top5) :
              r.user = q.user /\ r.score = q.score

====
